---- MODULE Spec2Model ----
(***************************************************************************)
(* A model of dataclassframe/dataclassframe_.py: a DataClassFrame holds a  *)
(* pandas DataFrame (`df`), the name(s) of its index field(s) and a        *)
(* _ColumnsWrapper; records go in and out through the `iat` (positional)   *)
(* and `at` (label) indexers and whole columns through `cols`.             *)
(*                                                                         *)
(* The heap is explicit: `tables` are the DataFrame objects, `stores` the  *)
(* DataClassFrame objects, and a store names its DataFrame and the         *)
(* DataClassFrame its _ColumnsWrapper refers to by their identities, so    *)
(* that sharing (copy(self)) and independence (DataFrame.copy) are         *)
(* observable.  The record class is the dataclass                          *)
(*     Record(id: str, val: int)                                           *)
(* whose `id` column is an object column and whose `val` column is int64.  *)
(***************************************************************************)
EXTENDS Integers, Sequences, FiniteSets, TLC

VARIABLES tables, stores, last, nops

vars == <<tables, stores, last, nops>>

----------------------------------------------------------------------------
(* Bounds *)

\* the longest list of records handed to DataClassFrame(...)
MaxRecs == 2
\* the number of operations applied after the construction
MaxOps == 2

\* the values of the field `id` and of the field `val`
Ids == {"x", "y"}
Vals == {0, 1}

----------------------------------------------------------------------------
(* Values *)

\* A Python scalar is either a plain object or a numpy scalar (np.generic).
Py(v) == [np |-> FALSE, v |-> v]
Np(v) == [np |-> TRUE, v |-> v]

\* to_basic_type with the isinstance test dropped: numpy scalars stay boxed
to_basic_type_identity(obj) == obj

\* to_basic_type: obj.item() for a numpy scalar, obj otherwise
to_basic_type(obj) == IF obj.np THEN Py(obj.v) ELSE obj

FieldNames == <<"id", "val">>
FieldSet == {FieldNames[i] : i \in 1..Len(FieldNames)}

\* the instances of the record class (their fields hold plain objects)
Record(i, v) == [id |-> Py(i), val |-> Py(v)]
Records == {Record(i, v) : i \in Ids, v \in Vals}
NoRecord == Record("", -1)

\* what a failed or value-less operation returns
None == 0

\* outcomes: "ok", or the exception that reaches the caller
OK == "ok"
ErrType == "ValueError: All data must be of type"
ErrEmpty == "ValueError: Data must contain at least one record"
ErrDuplicate == "ValueError: Index has duplicate keys"
ErrOutOfBounds == "IndexError: positional indexer is out-of-bounds"
ErrMissingLabel == "KeyError: label not in index"
ErrAmbiguous == "KeyError: key combination is not unique"
ErrKeyMismatch == "ValueError: key must equal values in the record"
ErrUnhashable == "TypeError: unhashable type: 'list'"
ErrNoneKey == "KeyError: None"
ErrLength == "ValueError: Length of values does not match length of index"
ErrNoAttr == "AttributeError: '_ColumnsWrapper' object has no attribute '__cols'"

\* the `index` argument: None, a field name, or a list of field names
IndexNone == [kind |-> "none", fields |-> <<>>]
IndexArgs ==
    { IndexNone,
      [kind |-> "str", fields |-> <<"id">>],
      [kind |-> "list", fields |-> <<"id">>],
      [kind |-> "list", fields |-> <<"id", "val">>] }

\* row labels: a position of the default RangeIndex, or the value(s) of the
\* index field(s)
RangeLabel(i) == [pos |-> i, key |-> <<>>]
KeyLabel(k) == [pos |-> -1, key |-> k]

\* the keys handed to the `at` indexer: a scalar "x" is <<"x">>, a tuple
\* ("x", 0) is <<"x", 0>>
KeyArgs == {<<i>> : i \in Ids} \cup {<<i, v>> : i \in Ids, v \in Vals}

Min(a, b) == IF a < b THEN a ELSE b
Max(a, b) == IF a > b THEN a ELSE b

----------------------------------------------------------------------------
(* The table engine, as the code uses it *)

\* value.__dict__ / pd.Series(value.__dict__): the field values of a record
RecordDict(r) == [id |-> r.id.v, val |-> r.val.v]

MakeRow(label, d) == [label |-> label, id |-> d.id, val |-> d.val]

\* row.to_dict(): the row of a frame of mixed dtypes; the value of the int64
\* column comes out as a numpy scalar, that of the object column as it is
Series_to_dict(row) == [id |-> Py(row.id), val |-> Np(row.val)]

\* record_class(**{k: to_basic_type(v) ...})
RowToRecord(row) ==
    LET d == Series_to_dict(row)
    IN  [id |-> to_basic_type(d.id), val |-> to_basic_type(d.val)]

\* the value(s) of the index field(s) of a row, in index order
IndexValue(row, fields) == [i \in 1..Len(fields) |-> row[fields[i]]]

\* the row a position addresses, 1-based; 0 when out of bounds
NormPos(n, p) ==
    IF p >= 0 /\ p < n THEN p + 1
    ELSE IF p < 0 /\ p >= -n THEN p + n + 1
    ELSE 0

\* a buffer identity no table uses
FreshBuf(tabs) ==
    1 + (IF tabs = <<>> THEN 0
         ELSE CHOOSE b \in {tabs[t].buf : t \in DOMAIN tabs} :
                \A t \in DOMAIN tabs : tabs[t].buf <= b)

\* the tables that are views on the buffers of table t
Aliases(tabs, t) == {u \in DOMAIN tabs : u # t /\ tabs[u].buf = tabs[t].buf}

SetRow(row, d, fs) ==
    [label |-> row.label,
     id    |-> IF "id" \in fs THEN d.id ELSE row.id,
     val   |-> IF "val" \in fs THEN d.val ELSE row.val]

\* df.iloc[i] = row / df.loc[key] = row on existing rows I of table t: the
\* rows of t take the values; a table that is a view on the same buffers
\* sees the columns in pf (whether a write reaches a view depends on the
\* block layout and on the pandas version)
WriteRows(tabs, t, I, d, pf) ==
    [u \in DOMAIN tabs |->
        IF u = t
        THEN [tabs[u] EXCEPT !.rows =
                [i \in 1..Len(tabs[u].rows) |->
                    IF i \in I THEN SetRow(tabs[u].rows[i], d, FieldSet)
                    ELSE tabs[u].rows[i]]]
        ELSE IF u \in Aliases(tabs, t)
        THEN [tabs[u] EXCEPT !.rows =
                [i \in 1..Len(tabs[u].rows) |->
                    IF i \in I THEN SetRow(tabs[u].rows[i], d, pf)
                    ELSE tabs[u].rows[i]]]
        ELSE tabs[u]]

\* df[name] = value on table t, the same way
WriteColumn(tabs, t, name, value, pf) ==
    [u \in DOMAIN tabs |->
        IF u = t \/ (u \in Aliases(tabs, t) /\ name \in pf)
        THEN [tabs[u] EXCEPT !.rows =
                [i \in 1..Len(tabs[u].rows) |->
                    IF i <= Len(value)
                    THEN [tabs[u].rows[i] EXCEPT ![name] = value[i]]
                    ELSE tabs[u].rows[i]]]
        ELSE tabs[u]]

\* df.loc[key] = row for a label that is not there: the frame is enlarged
\* in place (the same DataFrame object, on buffers of its own)
AppendRow(tabs, t, row) ==
    [tabs EXCEPT ![t] = [rows |-> Append(tabs[t].rows, row),
                         buf |-> FreshBuf(tabs),
                         caller |-> tabs[t].caller]]

\* a new DataFrame object holding `rows` on buffers of its own
NewTable(tabs, rows, caller) ==
    Append(tabs, [rows |-> rows, buf |-> FreshBuf(tabs), caller |-> caller])

\* df.set_index(index, drop=False) with no check of the labels
set_index_unverified(rows, fields) ==
    [res |-> OK,
     rows |-> [i \in 1..Len(rows) |->
                 [rows[i] EXCEPT !.label = KeyLabel(IndexValue(rows[i], fields))]]]

\* df.set_index(index, drop=False, verify_integrity=True): a copy of the
\* frame labelled by the index columns, which stay columns
set_index(rows, fields) ==
    IF \E i, j \in 1..Len(rows) :
          i # j /\ IndexValue(rows[i], fields) = IndexValue(rows[j], fields)
    THEN [res |-> ErrDuplicate, rows |-> <<>>]
    ELSE [res |-> OK,
          rows |-> [i \in 1..Len(rows) |->
                      [rows[i] EXCEPT !.label = KeyLabel(IndexValue(rows[i], fields))]]]

\* df.reset_index(drop=True): a copy of the frame labelled 0..n-1
reset_index(rows) ==
    [res |-> OK,
     rows |-> [i \in 1..Len(rows) |-> [rows[i] EXCEPT !.label = RangeLabel(i - 1)]]]

----------------------------------------------------------------------------
(* DataClassFrame: construction *)

\* _from_dataframe: the frame the new store holds (or the error)
_from_dataframe(rows, index) ==
    IF index.kind # "none" THEN set_index(rows, index.fields)
    ELSE reset_index(rows)

\* the items of `data`: instances of the record class, or something else
DataItems == {[isrec |-> TRUE, rec |-> r] : r \in Records}
                \cup {[isrec |-> FALSE, rec |-> NoRecord]}

RECURSIVE SeqsUpTo(_, _)
SeqsUpTo(S, n) ==
    IF n = 0 THEN {<<>>}
    ELSE LET shorter == SeqsUpTo(S, n - 1)
         IN  shorter \cup {Append(q, x) : q \in {z \in shorter : Len(z) = n - 1}, x \in S}

DataArgs == SeqsUpTo(DataItems, MaxRecs)

\* __init__: validate every item, refuse an empty list, append the records
\* to the empty frame, then _from_dataframe
DataClassFrame_init(data, index) ==
    IF \E i \in 1..Len(data) : ~data[i].isrec
    THEN [res |-> ErrType, rows |-> <<>>]
    ELSE IF Len(data) < 1
    THEN [res |-> ErrEmpty, rows |-> <<>>]
    ELSE _from_dataframe(
            [i \in 1..Len(data) |-> MakeRow(RangeLabel(i - 1), RecordDict(data[i].rec))],
            index)

\* a DataClassFrame object: its DataFrame, the DataClassFrame its
\* _ColumnsWrapper reads and writes (`__dcf`), its index; `how` and `of`
\* remember the call that made it
Store(df, cols, index, how, of) ==
    [df |-> df, cols |-> cols, index |-> index, how |-> how, of |-> of]

Init ==
    \E data \in DataArgs, index \in IndexArgs :
        LET r == DataClassFrame_init(data, index)
        IN  /\ tables = IF r.res = OK THEN NewTable(<<>>, r.rows, FALSE) ELSE <<>>
            /\ stores = IF r.res = OK THEN <<Store(1, 1, index, "new", 0)>> ELSE <<>>
            /\ last = [op |-> "new", s |-> IF r.res = OK THEN 1 ELSE 0, res |-> r.res,
                       arg |-> [data |-> data, index |-> index], ret |-> None]
            /\ nops = 0

----------------------------------------------------------------------------
(* Reading the heap *)

TableOf(s) == stores[s].df
RowsOf(s) == tables[stores[s].df].rows
NRows(s) == Len(RowsOf(s))

\* the positions tried on a store of n rows: all of [-n, n-1] and one beyond
\* on each side
Positions(s) == (-(NRows(s) + 1)) .. NRows(s)

\* what a write may carry over to the views on the written table's buffers
PropChoices(t, fs) == IF Aliases(tables, t) = {} THEN {{}} ELSE SUBSET fs

----------------------------------------------------------------------------
(* _IAtIndexer *)

\* iat[key] on the heap (tabs, strs): df.iloc[key], then the row as a record
IAt_getitem_in(tabs, strs, s, p) ==
    LET rows == tabs[strs[s].df].rows
        i == NormPos(Len(rows), p)
    IN  IF i = 0 THEN [res |-> ErrOutOfBounds, ret |-> NoRecord]
        ELSE [res |-> OK, ret |-> RowToRecord(rows[i])]

\* iat[key]
IAt_getitem(s, p) == IAt_getitem_in(tables, stores, s, p)

\* iat[key] = value with the positions from the end refused
IAt_setitem_no_negative(s, p, r, pf) ==
    LET i == IF p >= 0 /\ p < NRows(s) THEN p + 1 ELSE 0
    IN  IF i = 0 THEN [res |-> ErrOutOfBounds, tables |-> tables]
        ELSE [res |-> OK,
              tables |-> WriteRows(tables, TableOf(s), {i}, RecordDict(r), pf)]

\* iat[key] = value: df.iloc[key] = pd.Series(value.__dict__)
IAt_setitem(s, p, r, pf) ==
    LET i == NormPos(NRows(s), p)
    IN  IF i = 0 THEN [res |-> ErrOutOfBounds, tables |-> tables]
        ELSE [res |-> OK,
              tables |-> WriteRows(tables, TableOf(s), {i}, RecordDict(r), pf)]

----------------------------------------------------------------------------
(* _AtIndexer *)

\* a key addresses the labels it is a prefix of (a scalar on a composite
\* index selects every row of that first level)
KeyMatches(key, label) ==
    Len(key) <= Len(label.key) /\ SubSeq(label.key, 1, Len(key)) = key

\* at[key]: df.loc[idx[key], :]; more than one row is refused
At_getitem(s, key) ==
    LET rows == RowsOf(s)
        m == {i \in 1..Len(rows) : KeyMatches(key, rows[i].label)}
    IN  IF m = {} THEN [res |-> ErrMissingLabel, ret |-> NoRecord]
        ELSE IF Cardinality(m) > 1 THEN [res |-> ErrAmbiguous, ret |-> NoRecord]
        ELSE [res |-> OK, ret |-> RowToRecord(rows[CHOOSE i \in m : TRUE])]

\* df.loc[key] = row: the rows labelled key are overwritten; with no such
\* label the frame is enlarged by a row labelled key
loc_setitem(t, key, d, pf) ==
    LET rows == tables[t].rows
        m == {i \in 1..Len(rows) : rows[i].label = KeyLabel(key)}
    IN  IF m # {}
        THEN [res |-> OK, tables |-> WriteRows(tables, t, m, d, pf), enlarged |-> FALSE]
        ELSE [res |-> OK, tables |-> AppendRow(tables, t, MakeRow(KeyLabel(key), d)),
              enlarged |-> TRUE]

\* at[key] = value: value.__dict__[self.dcf.index] must equal key
At_setitem(s, key, r, pf) ==
    LET index == stores[s].index
        fail(e) == [res |-> e, tables |-> tables, enlarged |-> FALSE]
    IN  IF index.kind = "none" THEN fail(ErrNoneKey)
        ELSE IF index.kind = "list" THEN fail(ErrUnhashable)
        ELSE IF key # <<RecordDict(r)[index.fields[1]]>> THEN fail(ErrKeyMismatch)
        ELSE loc_setitem(TableOf(s), key, RecordDict(r), pf)

----------------------------------------------------------------------------
(* _ColumnsWrapper *)

\* the DataFrame the wrapper of store s reads and writes: that of `__dcf`
ColsTable(s) == stores[stores[s].cols].df

\* __getattribute__ on a wrapper: `__cols` and `__dcf` are fetched first
\* (lines 72-73), which fails on an instance that was never initialised
ColumnsWrapper_lookup(initialised, name) ==
    IF ~initialised THEN ErrNoAttr
    ELSE IF name \in FieldSet THEN "column"
    ELSE "attribute"

\* cols.<name> for a field name: dcf.df[name], the column of the DataFrame
\* of `__dcf` as it is now
Cols_getattribute(s, name) ==
    LET rows == tables[ColsTable(s)].rows
    IN  IF ColumnsWrapper_lookup(TRUE, name) = "column"
        THEN [res |-> OK, ret |-> [i \in 1..Len(rows) |-> rows[i][name]]]
        ELSE [res |-> "AttributeError", ret |-> <<>>]

\* cols.<name> = value for a field name: dcf.df[name] = value, which
\* pandas refuses for a list of another length than the frame
Cols_setattr(s, name, value, pf) ==
    IF ColumnsWrapper_lookup(TRUE, name) # "column"
    THEN [res |-> OK, tables |-> tables]
    ELSE IF Len(value) # Len(tables[ColsTable(s)].rows)
    THEN [res |-> ErrLength, tables |-> tables]
    ELSE [res |-> OK, tables |-> WriteColumn(tables, ColsTable(s), name, value, pf)]

\* the sequences offered as a column of store s: as long as its own table,
\* as long as the wrapper's table, and one shorter
ColumnArgs(s, name) ==
    LET n == Len(tables[ColsTable(s)].rows)
        lens == {NRows(s), n, Max(n - 1, 0)}
        D == IF name = "id" THEN Ids ELSE Vals
    IN  UNION {[1..l -> D] : l \in lens}

----------------------------------------------------------------------------
(* DataClassFrame: copy, head, to_dataframe, from_dataframe *)

\* copy(self) made to duplicate the DataFrame
copy_duplicating(s, deep) ==
    LET c == Len(stores) + 1
    IN  [res |-> OK, ret |-> c,
         tables |-> NewTable(tables, RowsOf(s), FALSE),
         stores |-> Append(stores, Store(Len(tables) + 1, stores[s].cols,
                                         stores[s].index, "copy", s))]

\* copy(deep): deepcopy(self) rebuilds the _ColumnsWrapper with
\* cls.__new__ and then reads y.__dict__ through __getattribute__;
\* copy(self) is a new DataClassFrame with the same df, index and _cols
DataClassFrame_copy(s, deep) ==
    LET c == Len(stores) + 1
    IN  IF deep
        THEN IF ColumnsWrapper_lookup(FALSE, "__dict__") = ErrNoAttr
             THEN [res |-> ErrNoAttr, ret |-> None, tables |-> tables, stores |-> stores]
             ELSE [res |-> OK, ret |-> c,
                   tables |-> NewTable(tables, RowsOf(s), FALSE),
                   stores |-> Append(stores, Store(Len(tables) + 1, c,
                                                   stores[s].index, "deepcopy", s))]
        ELSE [res |-> OK, ret |-> c, tables |-> tables,
              stores |-> Append(stores, Store(TableOf(s), stores[s].cols,
                                              stores[s].index, "copy", s))]

\* df.head(n): the first n rows (all but the last -n for a negative n)
HeadLen(N, n) == IF n >= 0 THEN Min(n, N) ELSE Max(N + n, 0)

\* head(n) that keeps the DataFrame of self
head_sharing(s, n) ==
    [res |-> OK, ret |-> Len(stores) + 1, tables |-> tables,
     stores |-> Append(stores, Store(TableOf(s), stores[s].cols,
                                     stores[s].index, "head", s))]

\* head(n): a copy(deep=False) of self whose df is self.df.head(n), a new
\* DataFrame that is a view on the rows of self.df
DataClassFrame_head(s, n) ==
    LET t == TableOf(s)
        k == HeadLen(NRows(s), n)
    IN  [res |-> OK, ret |-> Len(stores) + 1,
         tables |-> Append(tables, [rows |-> SubSeq(tables[t].rows, 1, k),
                                    buf |-> tables[t].buf, caller |-> FALSE]),
         stores |-> Append(stores, Store(Len(tables) + 1, stores[s].cols,
                                         stores[s].index, "head", s))]

\* to_dataframe that hands out self.df itself
to_dataframe_live(s) ==
    [res |-> OK, ret |-> TableOf(s),
     tables |-> [tables EXCEPT ![TableOf(s)].caller = TRUE]]

\* to_dataframe: self.df.copy(deep=True), held by the caller
to_dataframe(s) ==
    [res |-> OK, ret |-> Len(tables) + 1, tables |-> NewTable(tables, RowsOf(s), TRUE)]

\* the DataFrames the caller holds
CallerTables == {t \in DOMAIN tables : tables[t].caller}

\* from_dataframe(record_class, data, index): data (the empty frame of the
\* record class when None) goes through _from_dataframe unvalidated
from_dataframe(t, index) ==
    LET rows == IF t = None THEN <<>> ELSE tables[t].rows
        r == _from_dataframe(rows, index)
        c == Len(stores) + 1
    IN  IF r.res # OK
        THEN [res |-> r.res, ret |-> None, tables |-> tables, stores |-> stores]
        ELSE [res |-> OK, ret |-> c,
              tables |-> NewTable(tables, r.rows, FALSE),
              stores |-> Append(stores, Store(Len(tables) + 1, c, index,
                                              "from_dataframe", 0))]

----------------------------------------------------------------------------
(* Actions: one call each *)

Done(op, s, res, arg, ret) ==
    /\ last' = [op |-> op, s |-> s, res |-> res, arg |-> arg, ret |-> ret]
    /\ nops' = nops + 1

IAtGet ==
    /\ nops < MaxOps
    /\ \E s \in DOMAIN stores : \E p \in Positions(s) :
        LET r == IAt_getitem(s, p)
        IN  /\ Done("iat_get", s, r.res, p, r.ret)
            /\ UNCHANGED <<tables, stores>>

IAtSet ==
    /\ nops < MaxOps
    /\ \E s \in DOMAIN stores : \E p \in Positions(s), r \in Records :
        \E pf \in PropChoices(TableOf(s), FieldSet) :
            LET e == IAt_setitem(s, p, r, pf)
            IN  /\ tables' = e.tables
                /\ Done("iat_set", s, e.res, [p |-> p, rec |-> r], None)
                /\ UNCHANGED stores

AtGet ==
    /\ nops < MaxOps
    /\ \E s \in DOMAIN stores, key \in KeyArgs :
        LET r == At_getitem(s, key)
        IN  /\ Done("at_get", s, r.res, key, r.ret)
            /\ UNCHANGED <<tables, stores>>

AtSet ==
    /\ nops < MaxOps
    /\ \E s \in DOMAIN stores, key \in KeyArgs, r \in Records :
        \E pf \in PropChoices(TableOf(s), FieldSet) :
            LET e == At_setitem(s, key, r, pf)
            IN  /\ tables' = e.tables
                /\ Done("at_set", s, e.res, [key |-> key, rec |-> r], e.enlarged)
                /\ UNCHANGED stores

ColsGet ==
    /\ nops < MaxOps
    /\ \E s \in DOMAIN stores, name \in FieldSet :
        LET r == Cols_getattribute(s, name)
        IN  /\ Done("cols_get", s, r.res, name, r.ret)
            /\ UNCHANGED <<tables, stores>>

ColsSet ==
    /\ nops < MaxOps
    /\ \E s \in DOMAIN stores, name \in FieldSet :
        \E value \in ColumnArgs(s, name), pf \in PropChoices(ColsTable(s), {name}) :
            LET e == Cols_setattr(s, name, value, pf)
            IN  /\ tables' = e.tables
                /\ Done("cols_set", s, e.res, [name |-> name, value |-> value], None)
                /\ UNCHANGED stores

TakeHead ==
    /\ nops < MaxOps
    /\ \E s \in DOMAIN stores : \E n \in (-1) .. (NRows(s) + 1) :
        LET e == DataClassFrame_head(s, n)
        IN  /\ tables' = e.tables
            /\ stores' = e.stores
            /\ Done("head", s, e.res, n, e.ret)

Copy ==
    /\ nops < MaxOps
    /\ \E s \in DOMAIN stores, deep \in BOOLEAN :
        LET e == DataClassFrame_copy(s, deep)
        IN  /\ tables' = e.tables
            /\ stores' = e.stores
            /\ Done("copy", s, e.res, deep, e.ret)

ToDataframe ==
    /\ nops < MaxOps
    /\ \E s \in DOMAIN stores :
        LET e == to_dataframe(s)
        IN  /\ tables' = e.tables
            /\ Done("to_dataframe", s, e.res, None, e.ret)
            /\ UNCHANGED stores

FromDataframe ==
    /\ nops < MaxOps
    /\ \E t \in CallerTables \cup {None}, index \in IndexArgs :
        LET e == from_dataframe(t, index)
        IN  /\ tables' = e.tables
            /\ stores' = e.stores
            /\ Done("from_dataframe", e.ret, e.res, [t |-> t, index |-> index], e.ret)

\* the caller writes a row of a DataFrame it got from to_dataframe, or
\* drops its last row
CallerMutates ==
    /\ nops < MaxOps
    /\ \E t \in CallerTables :
        \/ \E i \in 1..Len(tables[t].rows), r \in Records :
              /\ tables' = WriteRows(tables, t, {i}, RecordDict(r), {})
              /\ Done("caller_set", 0, OK, [t |-> t, i |-> i, rec |-> r], None)
              /\ UNCHANGED stores
        \/ /\ tables[t].rows # <<>>
           /\ tables' = [tables EXCEPT ![t] =
                            [rows |-> SubSeq(tables[t].rows, 1, Len(tables[t].rows) - 1),
                             buf |-> FreshBuf(tables), caller |-> TRUE]]
           /\ Done("caller_drop", 0, OK, [t |-> t], None)
           /\ UNCHANGED stores

Next ==
    \/ IAtGet
    \/ IAtSet
    \/ AtGet
    \/ AtSet
    \/ ColsGet
    \/ ColsSet
    \/ TakeHead
    \/ Copy
    \/ ToDataframe
    \/ FromDataframe
    \/ CallerMutates

Spec == Init /\ [][Next]_vars

----------------------------------------------------------------------------
(* Properties *)

WriteOps == {"iat_set", "at_set", "cols_set"}

RowsIn(tabs, strs, s) == tabs[strs[s].df].rows

\* the value(s) of the index field(s) of record r, as a key
RecordKey(r, index) == IndexValue(RecordDict(r), index.fields)

Labels(rows) == [i \in 1..Len(rows) |-> rows[i].label]

\* C1: on a store with an index (a field name, a one-element list or a
\* composite list), at[k] = r succeeds and leaves the rows labelled k
\* holding r's values exactly when r's index value(s) equal k; otherwise it
\* fails with the key-mismatch error and the table is as before.
C1_KeyedWriteIffKeyMatches ==
    [][ (last'.op = "at_set" /\ stores[last'.s].index.kind # "none") =>
          LET s == last'.s
              k == last'.arg.key
              r == last'.arg.rec
              after == RowsIn(tables', stores', s)
          IN  IF k = RecordKey(r, stores[s].index)
              THEN /\ last'.res = OK
                   /\ \E i \in 1..Len(after) : after[i].label = KeyLabel(k)
                   /\ \A i \in 1..Len(after) :
                        after[i].label = KeyLabel(k) =>
                            RowToRecord(after[i]) = r
              ELSE /\ last'.res = ErrKeyMismatch
                   /\ tables' = tables ]_vars

\* C2: on a store indexed by ["id"], at[x] returns the one record whose id
\* is x; it fails with the missing-key error when no row has that id and
\* with the ambiguity error when several have.
C2_KeyedReadReturnsRecordWithThatId ==
    (/\ last.op = "at_get"
     /\ stores[last.s].index = [kind |-> "list", fields |-> <<"id">>]
     /\ Len(last.arg) = 1) =>
        LET rows == RowsOf(last.s)
            m == {i \in 1..Len(rows) : rows[i].id = last.arg[1]}
        IN  IF m = {} THEN last.res = ErrMissingLabel
            ELSE IF Cardinality(m) > 1 THEN last.res = ErrAmbiguous
            ELSE /\ last.res = OK
                 /\ last.ret = RowToRecord(rows[CHOOSE i \in m : TRUE])

\* C3: copy(deep=True) completes and returns a store on a table of its own
\* that reads back the same records.
C3_DeepCopyCompletes ==
    (last.op = "copy" /\ last.arg = TRUE) =>
        /\ last.res = OK
        /\ TableOf(last.ret) # TableOf(last.s)
        /\ RowsOf(last.ret) = RowsOf(last.s)

\* C4: a store and its copy(deep=False) answer every read alike (by
\* position, by key and by column), whatever was written through either.
C4_ShallowCopySharesTable ==
    \A c \in DOMAIN stores :
        stores[c].how = "copy" =>
            LET s == stores[c].of
            IN  /\ \A p \in Positions(s) \cup Positions(c) :
                      IAt_getitem(c, p) = IAt_getitem(s, p)
                /\ \A key \in KeyArgs : At_getitem(c, key) = At_getitem(s, key)
                /\ \A name \in FieldSet :
                      Cols_getattribute(c, name) = Cols_getattribute(s, name)

\* a keyed write through a shallow copy, or through the store it copies,
\* has added a row
C4_Witness ==
    /\ last.op = "at_set" /\ last.res = OK /\ last.ret = TRUE
    /\ \E c \in DOMAIN stores :
          stores[c].how = "copy" /\ last.s \in {c, stores[c].of}

\* C5: a store built from a list of n records has n rows, and position i
\* reads back the i-th record of the list, field for field.
C5_RoundTrip ==
    (last.op = "new" /\ last.res = OK) =>
        LET data == last.arg.data
        IN  /\ NRows(last.s) = Len(data)
            /\ \A i \in 1..Len(data) :
                  IAt_getitem(last.s, i - 1) = [res |-> OK, ret |-> data[i].rec]

\* a store built from two different records under an index
C5_Witness ==
    /\ last.op = "new" /\ last.res = OK
    /\ Len(last.arg.data) = 2
    /\ last.arg.data[1] # last.arg.data[2]
    /\ last.arg.index.kind # "none"

\* C6: head(k) with 0 <= k <= N is a store of exactly k rows reading as
\* the first k of self, the call leaves self as it was, and no write made
\* through a head changes the number of rows of the store it was taken of.
C6_HeadIsPrefixAndLeavesParentRows ==
    [][ /\ (last'.op = "head" /\ last'.arg >= 0 /\ last'.arg <= NRows(last'.s)) =>
              LET s == last'.s
                  h == last'.ret
              IN  /\ Len(RowsIn(tables', stores', h)) = last'.arg
                  /\ \A i \in 0 .. (last'.arg - 1) :
                        IAt_getitem_in(tables', stores', h, i) = IAt_getitem(s, i)
                  /\ \A t \in DOMAIN tables : tables'[t] = tables[t]
                  /\ \A o \in DOMAIN stores : stores'[o] = stores[o]
        /\ (last'.op \in WriteOps /\ stores[last'.s].how = "head") =>
              LET s == stores[last'.s].of
              IN  Len(RowsIn(tables', stores', s)) = NRows(s) ]_vars

\* a keyed write through a head has added a row to the head
C6_Witness ==
    /\ last.op = "at_set" /\ last.res = OK /\ last.ret = TRUE
    /\ stores[last.s].how = "head"
    /\ NRows(last.s) # NRows(stores[last.s].of)

\* C7: cols.f of a store is the column of that store's own table, one
\* entry per row, the i-th being field f of the store's i-th record; and
\* cols.f = seq (seq as long as the store) makes field f of the store's
\* i-th record seq[i] and leaves the other fields alone.
C7_ColumnsAreTheStoresOwn ==
    [][ /\ last'.op = "cols_get" =>
              LET s == last'.s
              IN  /\ last'.res = OK
                  /\ Len(last'.ret) = NRows(s)
                  /\ \A i \in 1..NRows(s) :
                        last'.ret[i] = IAt_getitem(s, i - 1).ret[last'.arg].v
        /\ (last'.op = "cols_set" /\ Len(last'.arg.value) = NRows(last'.s)) =>
              LET s == last'.s
                  f == last'.arg.name
              IN  /\ last'.res = OK
                  /\ Len(RowsIn(tables', stores', s)) = NRows(s)
                  /\ \A i \in 1..NRows(s) :
                        LET now == IAt_getitem_in(tables', stores', s, i - 1).ret
                            was == IAt_getitem(s, i - 1).ret
                        IN  /\ now[f].v = last'.arg.value[i]
                            /\ \A g \in FieldSet \ {f} : now[g] = was[g] ]_vars

\* C8: to_dataframe returns a table with the content of the store's table;
\* what the caller then does to it changes no store's table, and no write
\* on a store changes it.
C8_ExportIsIndependent ==
    [][ /\ last'.op = "to_dataframe" =>
              tables'[last'.ret].rows = RowsOf(last'.s)
        /\ last'.op \in {"caller_set", "caller_drop"} =>
              \A s \in DOMAIN stores :
                  /\ tables'[TableOf(s)].rows = tables[TableOf(s)].rows
                  /\ tables'[ColsTable(s)].rows = tables[ColsTable(s)].rows
        /\ last'.op \in WriteOps =>
              \A t \in CallerTables : tables'[t].rows = tables[t].rows ]_vars

\* the caller has changed a row of an exported table
C8_Witness ==
    /\ last.op = "caller_set"
    /\ \E s \in DOMAIN stores : RowsOf(s) # tables[last.arg.t].rows

\* C9: iat[p] = r with p in [-n, n-1] makes position p (and p + n for a
\* negative p) read r, leaves every other row and every label as it was,
\* whatever r's index value is; with p outside [-n, n-1] it fails with the
\* out-of-bounds error and the tables are as before.
C9_PositionalWrite ==
    [][ last'.op = "iat_set" =>
          LET s == last'.s
              p == last'.arg.p
              r == last'.arg.rec
              n == NRows(s)
              q == IF p < 0 THEN p + n ELSE p
              before == RowsOf(s)
              after == RowsIn(tables', stores', s)
          IN  IF p >= -n /\ p <= n - 1
              THEN /\ last'.res = OK
                   /\ IAt_getitem_in(tables', stores', s, p) = [res |-> OK, ret |-> r]
                   /\ IAt_getitem_in(tables', stores', s, q) = [res |-> OK, ret |-> r]
                   /\ Len(after) = n
                   /\ \A i \in 1..n : i # q + 1 => after[i] = before[i]
                   /\ Labels(after) = Labels(before)
              ELSE /\ last'.res = ErrOutOfBounds
                   /\ tables' = tables ]_vars

\* a write at a negative position of a record whose id is not the label of
\* the row and is the id of another row
C9_Witness ==
    /\ last.op = "iat_set" /\ last.res = OK /\ last.arg.p < 0
    /\ stores[last.s].index.kind = "str"
    /\ LET rows == RowsOf(last.s)
           i == NormPos(Len(rows), last.arg.p)
       IN  /\ rows[i].label # KeyLabel(<<rows[i].id>>)
           /\ \E j \in 1..Len(rows) : j # i /\ rows[j].id = rows[i].id

HasDuplicates(q) == \E i, j \in 1..Len(q) : i # j /\ q[i] = q[j]

\* C10: in a store with an index no two rows carry the same label;
\* building one from records, or from a table, in which two rows share the
\* index value(s) fails with the duplicate-key error.
C10_LabelsUnique ==
    /\ \A s \in DOMAIN stores :
          stores[s].index.kind # "none" => ~HasDuplicates(Labels(RowsOf(s)))
    /\ (/\ last.op = "new"
        /\ last.arg.index.kind # "none"
        /\ \A i \in 1..Len(last.arg.data) : last.arg.data[i].isrec
        /\ HasDuplicates([i \in 1..Len(last.arg.data) |->
                            RecordKey(last.arg.data[i].rec, last.arg.index)])) =>
            (last.res = ErrDuplicate /\ stores = <<>>)
    /\ (/\ last.op = "from_dataframe"
        /\ last.arg.index.kind # "none"
        /\ last.arg.t # None
        /\ HasDuplicates([i \in 1..Len(tables[last.arg.t].rows) |->
                            IndexValue(tables[last.arg.t].rows[i],
                                       last.arg.index.fields)])) =>
            last.res = ErrDuplicate

\* a keyed write has added a row under a new label
C10_Witness ==
    /\ last.op = "at_set" /\ last.res = OK /\ last.ret = TRUE
    /\ NRows(last.s) >= 2
====
